---- MODULE Spec2Model ----
(***************************************************************************)
(* MediRota rota solver: the CP-SAT model builder and solution extractor   *)
(* of solver/app/solver_core.py (RotaSolverCore), as a state machine.      *)
(*                                                                         *)
(* One behaviour is one call of RotaSolverCore.solve on one request:       *)
(*   start --BuildModel--> built | build_error                             *)
(*   built --EngineSolve--> solved      (the external CP-SAT engine)       *)
(*   solved --Finish--> returned | raised                                  *)
(* and the call is made by the /solve_full handler of solver/app/main.py:   *)
(*   returned | raised | build_error --Respond--> responded                  *)
(* The service of main.py serves further calls once one is answered:       *)
(*   responded --Receive--> start | responded   (/solve_full, /solve_repair) *)
(*   responded --Explain--> responded           (GET /explain)               *)
(* and validate_solution.py is run offline on the request and the response: *)
(*   responded --Validate--> responded                                       *)
(*                                                                         *)
(* Identifiers are strings in the code.  An identifier is modelled by the  *)
(* list of its "_"-separated parts (<<"ward","1">> is "ward_1"), so that   *)
(* the variable names f"x_{e}_{d}_{s}_{w}" and var_name.split('_') are     *)
(* modelled by what they do: concatenation and indexing of part lists.     *)
(* Dates are ISO strings without "_" (one part); clock times are minutes   *)
(* after midnight; a diagnostics note is the list of its parts.            *)
(* The requests drawn honour the data model: unique identifiers, one       *)
(* demand entry per cell, non-negative counts and contract hours; the      *)
(* preferences and hints lists default to empty.                           *)
(***************************************************************************)
EXTENDS Integers, Sequences, FiniteSets, TLC

VARIABLES
    request,      \* the SolverRequestModel handed to solve
    pc,           \* position in solve
    xvars,        \* keys of the dict x built by _build_model (variable names)
    yvars,        \* keys of the dict y
    uvars,        \* keys of the dict u
    status,       \* engine status returned by solver.Solve
    sol,          \* engine values: [x: names valued 1, y: names valued 1, u: name -> value]
    assignments,  \* list returned by _extract_assignments
    diagnostics,  \* DiagnosticsModel returned by solve
    response,     \* what the handler answers: the SolverResponseModel or the HTTP error
    call,         \* the call being served: its number and its endpoint
    LAST,         \* the debug store of main.py (request, response), with the calls that wrote them
    solutions,    \* the in-memory dict solutions of main.py: solutionId -> stored solution
    explained,    \* what GET /explain answered, if asked since the latest POST
    exitCode      \* exit code of validate_solution.py run on the call, -1 before it ran

vars == <<request, pc, xvars, yvars, uvars, status, sol, assignments, diagnostics,
          response, call, LAST, solutions, explained, exitCode>>

----------------------------------------------------------------------------
(* Bounds of the request family *)

MaxStaff == 2
MaxDays == 2
MaxCells == 4

----------------------------------------------------------------------------
(* Generic helpers *)

Range(f) == {f[i] : i \in DOMAIN f}

RECURSIVE SumSet(_, _)
\* sum of f[e] over the finite set S
SumSet(S, f) ==
    IF S = {} THEN 0
    ELSE LET e == CHOOSE e \in S : TRUE IN f[e] + SumSet(S \ {e}, f)

SetMax(S) == CHOOSE m \in S : \A n \in S : n <= m
SetMin(S) == CHOOSE m \in S : \A n \in S : m <= n

\* Python int(): truncation toward zero of the quotient n / d (d > 0)
IntTrunc(n, d) == IF n >= 0 THEN n \div d ELSE -((-n) \div d)

----------------------------------------------------------------------------
(* Calendar: date.fromisoformat / date.isoformat / date.isocalendar *)

\* two ISO weeks, Monday 2024-12-30 (ordinal 0) to Sunday 2025-01-12
Calendar ==
    << "2024-12-30", "2024-12-31", "2025-01-01", "2025-01-02", "2025-01-03",
       "2025-01-04", "2025-01-05", "2025-01-06", "2025-01-07", "2025-01-08",
       "2025-01-09", "2025-01-10", "2025-01-11", "2025-01-12" >>

\* date.fromisoformat(d), as a day ordinal
Ord(d) == (CHOOSE i \in DOMAIN Calendar : Calendar[i] = d) - 1
\* date.isoformat()
Iso(n) == Calendar[n + 1]
\* f"{isocalendar()[0]}-{isocalendar()[1]:02d}"
WeekKey(d) == << "2025-01", "2025-02" >>[(Ord(d) \div 7) + 1]

\* _get_dates: the dates of the horizon, start to end inclusive, in order
GetDates(horizon) ==
    LET a == Ord(horizon.start)
        b == Ord(horizon.end)
    IN  [i \in 1..(IF b >= a THEN b - a + 1 ELSE 0) |-> Iso(a + i - 1)]

----------------------------------------------------------------------------
(* The request family: SolverRequestModel values drawn by Init *)

W1 == << "w1" >>
W2 == << "w2" >>
WU == << "ward", "1" >>          \* the ward id "ward_1"
WardLists == { << W1 >>, << W1, W2 >>, << WU >> }

StaffIds == << << "e1" >>, << "e2" >>, << "e3" >> >>

DAY   == [id |-> << "day" >>, code |-> << "DAY" >>, start |-> 480, end |-> 960,
          isNight |-> FALSE, durationMinutes |-> 480]
NIGHT == [id |-> << "night" >>, code |-> << "NIGHT" >>, start |-> 1200, end |-> 480,
          isNight |-> TRUE, durationMinutes |-> 720]
EARLY == [id |-> << "early" >>, code |-> << "EARLY" >>, start |-> 0, end |-> 480,
          isNight |-> FALSE, durationMinutes |-> 480]
EVE   == [id |-> << "eve" >>, code |-> << "EVE" >>, start |-> 1140, end |-> 1380,
          isNight |-> FALSE, durationMinutes |-> 240]
ShiftLists == { << DAY >>, << DAY, NIGHT >>, << EARLY, EVE >> }

SkillNames == << "k1", "k2" >>
SkillChoices == { {"k1"}, {"k1", "k2"} }
ContractChoices == { 40, 168 }
RuleChoices ==
    { [minRestHours |-> 11, maxConsecutiveNights |-> 3, oneShiftPerDay |-> TRUE],
      [minRestHours |-> 8, maxConsecutiveNights |-> 3, oneShiftPerDay |-> FALSE] }

\* horizons starting on Saturday 2025-01-04 (ordinal 5), and the longest one also
\* starting on Sunday 2025-01-05, so that it spans two ISO weeks
Horizons ==
    { [start |-> Iso(5), end |-> Iso(5 + n - 1)] : n \in 1..MaxDays }
      \cup { [start |-> Iso(6), end |-> Iso(6 + MaxDays - 1)] }

\* staff profiles: eligible for every ward of the request, or for its first ward only;
\* one profile has a contract of zero hours
EligChoices(wards) == { Range(wards), {wards[1]} }
Profiles(wards) ==
    (SkillChoices \X EligChoices(wards) \X ContractChoices)
      \cup { << {"k1"}, Range(wards), 0 >> }
StaffLists(wards) ==
    UNION { { [i \in 1..n |->
                 [id |-> StaffIds[i], skills |-> p[i][1], eligibleWards |-> p[i][2],
                  contractHoursPerWeek |-> p[i][3]]]
              : p \in [1..n -> Profiles(wards)] }
            : n \in 0..MaxStaff }

Codes(shiftTypes) == [i \in DOMAIN shiftTypes |-> shiftTypes[i].code]

\* every (date, ward, slot) of the horizon
AllCells(horizon, wards, shiftTypes) ==
    { << d, w, s >> : d \in Range(GetDates(horizon)), w \in Range(wards),
                      s \in Range(Codes(shiftTypes)) }

\* the demand list with one entry per cell of cells, reqOf[c] being its requirements
DemandOf(cells, reqOf) ==
    { [date |-> c[1], wardId |-> c[2], slot |-> c[3], requirements |-> reqOf[c]] : c \in cells }

SlotIndex(shiftTypes, s) == CHOOSE i \in DOMAIN shiftTypes : shiftTypes[i].code = s

\* demand lists: one entry per cell (a key appears at most once)
DemandChoices(horizon, wards, shiftTypes) ==
    LET cells == AllCells(horizon, wards, shiftTypes)
        dates == GetDates(horizon)
        last  == << dates[Len(dates)], wards[Len(wards)], shiftTypes[Len(shiftTypes)].code >>
        one    == [c \in cells |-> ("k1" :> 1)]
        both   == [c \in cells |-> ("k1" :> 1) @@ ("k2" :> 1)]
        bySlot == [c \in cells |-> (SkillNames[SlotIndex(shiftTypes, c[3])] :> 1)]
    IN  { DemandOf(cells, one), DemandOf(cells, both),
          DemandOf(cells, bySlot), DemandOf(cells \ {last}, one) }

LockChoices(horizon, wards, shiftTypes) ==
    { << >>,
      << [staffId |-> StaffIds[1], wardId |-> wards[1], date |-> horizon.start,
          slot |-> shiftTypes[1].code] >> }

Requests ==
    UNION { UNION { UNION {
        { [horizon |-> h, wards |-> ws, shiftTypes |-> sts, staff |-> st,
           demand |-> dm, rules |-> ru, locks |-> lk,
           preferences |-> << >>, hints |-> << >>]
          : dm \in DemandChoices(h, ws, sts), ru \in RuleChoices,
            lk \in LockChoices(h, ws, sts),
            st \in { l \in StaffLists(ws) :
                       Len(l) * Len(GetDates(h)) * Len(ws) * Len(sts) <= MaxCells } }
        : h \in Horizons } : ws \in WardLists } : sts \in ShiftLists }

----------------------------------------------------------------------------
(* Index builder and variable allocator: _create_indices, _build_model *)

Dates(req) == GetDates(req.horizon)
Slots(req) == Codes(req.shiftTypes)

\* f"x_{e}_{d}_{s}_{w}", f"y_{e}_{d}_{s}_{w}_{k}", f"u_{d}_{s}_{w}_{k}" as part lists
XName(e, d, s, w) == << "x" >> \o e \o << d >> \o s \o w
YName(e, d, s, w, k) == << "y" >> \o e \o << d >> \o s \o w \o << k >>
UName(d, s, w, k) == << "u" >> \o << d >> \o s \o w \o << k >>

\* _collect_skills: the distinct skills of the demand requirements
CollectSkills(req) == UNION { DOMAIN dm.requirements : dm \in req.demand }

\* _build_demand_lookup: the keys of has_demand_cell (every value is True) ...
HasDemandCell(req) == { << dm.date, dm.wardId, dm.slot >> : dm \in req.demand }
\* ... and demand_req: (d, w, s, skill) -> count
DemandReqKeys(req) ==
    UNION { { << dm.date, dm.wardId, dm.slot, k >> : k \in DOMAIN dm.requirements }
            : dm \in req.demand }
DemandReq(req, key) ==
    LET dm == CHOOSE dm \in req.demand :
                << dm.date, dm.wardId, dm.slot >> = << key[1], key[2], key[3] >>
    IN  dm.requirements[key[4]]

\* the (staff index, date, ward, slot) tuples visited by the loops over E, D, WARDS, SLOTS
LoopCells(req) ==
    { << i, d, w, s >> : i \in DOMAIN req.staff, d \in Range(Dates(req)),
                         w \in Range(req.wards), s \in Range(Slots(req)) }

\* has_demand_cell[(d, w, s)] is a plain dict lookup: a cell of the loops that is not a
\* key raises KeyError (the lookup is reached only past the no-demand guard)
BuildRaisesKeyError(req) ==
    /\ HasDemandCell(req) # {}
    /\ \E t \in LoopCells(req) : << t[2], t[3], t[4] >> \notin HasDemandCell(req)

\* keys of x: one variable per staff member and demand cell of the loops
XVars(req) ==
    IF HasDemandCell(req) = {} THEN {}
    ELSE { XName(req.staff[t[1]].id, t[2], t[4], t[3])
           : t \in { t \in LoopCells(req) : << t[2], t[3], t[4] >> \in HasDemandCell(req) } }

\* keys of y: one variable per x and demand skill the staff member has
YVars(req) ==
    IF HasDemandCell(req) = {} THEN {}
    ELSE UNION { { YName(req.staff[t[1]].id, t[2], t[4], t[3], k)
                   : k \in CollectSkills(req) \cap req.staff[t[1]].skills }
                 : t \in { t \in LoopCells(req) : << t[2], t[3], t[4] >> \in HasDemandCell(req) } }

\* the (d, w, s, k) of demand_req that the loops over D, WARDS, SLOTS, SKILLS visit
ULoopKeys(req) ==
    { key \in DemandReqKeys(req) :
        /\ key[1] \in Range(Dates(req))
        /\ key[2] \in Range(req.wards)
        /\ key[3] \in Range(Slots(req)) }

\* keys of u
UVars(req) ==
    IF HasDemandCell(req) = {} THEN {}
    ELSE { UName(key[1], key[3], key[2], key[4]) : key \in ULoopKeys(req) }

\* upper bound of the domain of u[name]: NewIntVar(0, demand_req[(d, w, s, k)], name)
UBound(req, name) ==
    LET key == CHOOSE key \in ULoopKeys(req) : UName(key[1], key[3], key[2], key[4]) = name
    IN  DemandReq(req, key)

\* week_bins: ISO week key -> dates of the horizon in that week
WeekBins(req) ==
    [wk \in { WeekKey(d) : d \in Range(Dates(req)) } |->
        SelectSeq(Dates(req), LAMBDA d : WeekKey(d) = wk)]

\* hours of rest below which _insufficient_rest forbids an adjacency
RestHoursLiteral == 11

\* _insufficient_rest(shift1, shift2): both clock times are parsed onto the same day
InsufficientRest(shift1, shift2) ==
    LET end1 == shift1.end + (IF shift1.isNight THEN 1440 ELSE 0)
        restMinutes == shift2.start - end1
    IN  restMinutes < RestHoursLiteral * 60

ShiftById(req, id) == CHOOSE st \in Range(req.shiftTypes) : st.id = id

\* indices.forbidden_adjacency[st1.id][st2.id]
ForbiddenAdjacency(req) ==
    LET ids == { st.id : st \in Range(req.shiftTypes) }
    IN  [a \in ids |-> [b \in ids |-> InsufficientRest(ShiftById(req, a), ShiftById(req, b))]]

\* _shifts_overlap_same_day
ShiftsOverlapSameDay(shift1, shift2) ==
    LET end1 == shift1.end + (IF shift1.isNight THEN 1440 ELSE 0)
        end2 == shift2.end + (IF shift2.isNight THEN 1440 ELSE 0)
    IN  ~(end1 <= shift2.start \/ end2 <= shift1.start)

----------------------------------------------------------------------------
(* Constraint builder.  v = [x |-> names valued 1, y |-> names valued 1,       *)
(* u |-> [name -> value]] is an assignment of the model's variables; X, Y, U   *)
(* are the keys of the dicts x, y, u.                                          *)

XVal(v, n) == IF n \in v.x THEN 1 ELSE 0
YVal(v, n) == IF n \in v.y THEN 1 ELSE 0

\* _add_feasibility_links
FeasibilityLinks(req, X, Y, v) ==
    LET dates == Range(Dates(req))
        hasDemandCell == HasDemandCell(req)
    IN
    \A i \in DOMAIN req.staff, d \in dates,
       slot \in Range(Slots(req)), ward \in Range(req.wards) :
        LET staff == req.staff[i]
            xn == XName(staff.id, d, slot, ward)
            ks == { k \in staff.skills : YName(staff.id, d, slot, ward, k) \in Y }
            yv == [k \in ks |-> YVal(v, YName(staff.id, d, slot, ward, k))]
        IN  IF << d, ward, slot >> \notin hasDemandCell
            THEN xn \in X => XVal(v, xn) = 0
            ELSE IF ward \notin staff.eligibleWards
            THEN xn \in X => XVal(v, xn) = 0
            ELSE /\ \A k \in ks : yv[k] <= XVal(v, xn)
                 /\ ks # {} => SumSet(ks, yv) <= XVal(v, xn)

\* the staff whose y variable enters the coverage sum of (d, w, s, skill)
CoverageStaff(req, Y, key) ==
    { i \in DOMAIN req.staff :
        /\ key[4] \in req.staff[i].skills
        /\ key[2] \in req.staff[i].eligibleWards
        /\ YName(req.staff[i].id, key[1], key[3], key[2], key[4]) \in Y }

CoverageSum(req, Y, v, key) ==
    LET el == CoverageStaff(req, Y, key)
    IN  SumSet(el, [i \in el |-> YVal(v, YName(req.staff[i].id, key[1], key[3], key[2], key[4]))])

\* faulty variant of CoverageCell: the slack is a lower bound of the shortfall only
CoverageCell_AtLeast(req, Y, v, key, uval) ==
    IF CoverageStaff(req, Y, key) # {}
    THEN CoverageSum(req, Y, v, key) + uval >= DemandReq(req, key)
    ELSE uval = DemandReq(req, key)

\* faulty variant of CoverageCell: no slack in the sum of a staffed skill
CoverageCell_NoSlack(req, Y, v, key, uval) ==
    IF CoverageStaff(req, Y, key) # {}
    THEN CoverageSum(req, Y, v, key) = DemandReq(req, key) /\ uval = 0
    ELSE uval = DemandReq(req, key)

\* the coverage constraint of one (d, w, s, skill), given the value uval of its slack
CoverageCell(req, Y, v, key, uval) ==
    IF CoverageStaff(req, Y, key) # {}
    THEN CoverageSum(req, Y, v, key) + uval = DemandReq(req, key)
    ELSE uval = DemandReq(req, key)

\* _add_coverage_constraints_with_slack
AddCoverageConstraintsWithSlack(req, Y, U, v) ==
    \A key \in DemandReqKeys(req) :
        LET un == UName(key[1], key[3], key[2], key[4])
        IN  un \in U => CoverageCell(req, Y, v, key, v.u[un])

\* faulty variant of AddOneShiftPerDayConstraints: enforced only when the rule is set
AddOneShiftPerDayConstraints_IfRule(req, X, v) ==
    req.rules.oneShiftPerDay =>
      \A i \in DOMAIN req.staff, d \in Range(Dates(req)) :
        LET dayVars == { t \in Range(Slots(req)) \X Range(req.wards) :
                           XName(req.staff[i].id, d, t[1], t[2]) \in X }
        IN  dayVars # {} =>
              SumSet(dayVars, [t \in dayVars |->
                                 XVal(v, XName(req.staff[i].id, d, t[1], t[2]))]) <= 1

\* _add_one_shift_per_day_constraints
AddOneShiftPerDayConstraints(req, X, v) ==
    LET dates == Range(Dates(req)) IN
    \A i \in DOMAIN req.staff, d \in dates :
        LET dayVars == { t \in Range(Slots(req)) \X Range(req.wards) :
                           XName(req.staff[i].id, d, t[1], t[2]) \in X }
        IN  dayVars # {} =>
              SumSet(dayVars, [t \in dayVars |->
                                 XVal(v, XName(req.staff[i].id, d, t[1], t[2]))]) <= 1

\* x[var1] + x[var2] <= 1 for every pair of wards, where both variables exist
PairAtMostOne(req, X, v, e, d1, s1, d2, s2) ==
    \A w1 \in Range(req.wards), w2 \in Range(req.wards) :
        LET n1 == XName(e, d1, s1, w1)
            n2 == XName(e, d2, s2, w2)
        IN  (n1 \in X /\ n2 \in X) => XVal(v, n1) + XVal(v, n2) <= 1

\* _add_rest_constraints (a): same-day overlap of two different shift types
SameDayOverlapConstraints(req, X, v) ==
    LET dates == Range(Dates(req)) IN
    \A i \in DOMAIN req.staff, d \in dates,
       a \in DOMAIN req.shiftTypes, b \in DOMAIN req.shiftTypes :
        (a # b /\ ShiftsOverlapSameDay(req.shiftTypes[a], req.shiftTypes[b])) =>
            PairAtMostOne(req, X, v, req.staff[i].id,
                          d, req.shiftTypes[a].code, d, req.shiftTypes[b].code)

\* faulty variant of ConsecutiveRestConstraints: the last pair of dates is skipped
ConsecutiveRestConstraints_SkipLast(req, X, v) ==
    LET dates == Dates(req)
        forbidden == ForbiddenAdjacency(req)
    IN
    \A i \in DOMAIN req.staff, n \in 1..(Len(dates) - 2),
       a \in DOMAIN req.shiftTypes, b \in DOMAIN req.shiftTypes :
        forbidden[req.shiftTypes[a].id][req.shiftTypes[b].id] =>
            PairAtMostOne(req, X, v, req.staff[i].id,
                          dates[n], req.shiftTypes[a].code,
                          dates[n + 1], req.shiftTypes[b].code)

\* _add_rest_constraints (b): forbidden adjacency on consecutive dates
ConsecutiveRestConstraints(req, X, v) ==
    LET dates == Dates(req)
        forbidden == ForbiddenAdjacency(req)
    IN
    \A i \in DOMAIN req.staff, n \in 1..(Len(dates) - 1),
       a \in DOMAIN req.shiftTypes, b \in DOMAIN req.shiftTypes :
        forbidden[req.shiftTypes[a].id][req.shiftTypes[b].id] =>
            PairAtMostOne(req, X, v, req.staff[i].id,
                          dates[n], req.shiftTypes[a].code,
                          dates[n + 1], req.shiftTypes[b].code)

AddRestConstraints(req, X, v) ==
    SameDayOverlapConstraints(req, X, v) /\ ConsecutiveRestConstraints(req, X, v)

\* faulty variant of ContractMinutes: the hours are taken as minutes
ContractMinutes_NoConversion(staff) == staff.contractHoursPerWeek

\* contract_minutes = int(contractHoursPerWeek * 60)
ContractMinutes(staff) == staff.contractHoursPerWeek * 60

\* faulty variant of ProratedCap: the full weekly contract whatever the days in the week
ProratedCap_NoProrate(staff, daysInWeek) == ContractMinutes(staff)

\* prorated_cap = int(contract_minutes * (days_in_week / 7.0)); the float product
\* truncates to the same integer as the exact quotient for every contract of
\* 0 to 200 hours in half-hour steps
ProratedCap(staff, daysInWeek) == IntTrunc(ContractMinutes(staff) * daysInWeek, 7)

\* the (date, shift index, ward) whose x variable of staff e exists, over the given dates
MinuteVars(req, X, e, dates) ==
    { t \in dates \X (DOMAIN req.shiftTypes) \X Range(req.wards) :
        XName(e, t[1], req.shiftTypes[t[2]].code, t[3]) \in X }

\* sum of durationMinutes * x over those variables
MinutesSum(req, X, v, e, dates) ==
    LET mv == MinuteVars(req, X, e, dates)
    IN  SumSet(mv, [t \in mv |-> req.shiftTypes[t[2]].durationMinutes
                                   * XVal(v, XName(e, t[1], req.shiftTypes[t[2]].code, t[3]))])

\* _add_weekly_contract_hours_constraints
AddWeeklyContractHoursConstraints(req, X, v) ==
    LET weekBins == WeekBins(req) IN
    \A i \in DOMAIN req.staff, wk \in DOMAIN weekBins :
        LET weekDates == Range(weekBins[wk])
        IN  MinuteVars(req, X, req.staff[i].id, weekDates) # {} =>
              MinutesSum(req, X, v, req.staff[i].id, weekDates)
                <= ProratedCap(req.staff[i], Len(weekBins[wk]))

\* faulty variant of AddHints: every hint fixes its x variable to 1
AddHints_Binding(req, X, v) ==
    \A n \in DOMAIN req.hints :
        LET h == req.hints[n]
            xn == XName(h.staffId, h.date, h.slot, h.wardId)
        IN  xn \in X => XVal(v, xn) = 1

\* if request.hints: _add_hints(...), whose body is pass: nothing is added to the model
AddHints(req, X, v) == req.hints # << >> => TRUE

----------------------------------------------------------------------------
(* Objective assembler: _set_objective and its auxiliary variables *)

A == 100000
B == 100
D == 1000000
TotalMinutesMax == 10000
AllStaffMinutesMax == 100000

\* staff for whom minutes_vars is not empty (the keys of staff_minutes)
StaffWithVars(req, X) ==
    { i \in DOMAIN req.staff : MinuteVars(req, X, req.staff[i].id, Range(Dates(req))) # {} }

StaffMinutes(req, X, v, i) == MinutesSum(req, X, v, req.staff[i].id, Range(Dates(req)))

AllStaffMinutes(req, X, v) ==
    LET sw == StaffWithVars(req, X)
    IN  SumSet(sw, [i \in sw |-> StaffMinutes(req, X, v, i)])

\* _create_fairness_penalty: max - min of the staff totals, 0 below two staff
FairnessPenalty(req, X, v) ==
    LET sw == StaffWithVars(req, X)
        ms == { StaffMinutes(req, X, v, i) : i \in sw }
    IN  IF Cardinality(sw) < 2 THEN 0 ELSE SetMax(ms) - SetMin(ms)

\* _create_utilization_penalty: minus the minutes of all staff
UtilizationPenalty(req, X, v) ==
    IF StaffWithVars(req, X) = {} THEN 0 ELSE -AllStaffMinutes(req, X, v)

\* the domains of total_minutes_{e} (0..10000), total_all_staff_minutes (0..100000),
\* utilization_penalty, max_minutes, min_minutes and variance, which the model must respect
AuxVariableDomains(req, X, v) ==
    LET sw == StaffWithVars(req, X) IN
    X # {} =>
        /\ \A i \in sw : StaffMinutes(req, X, v, i) \in 0..TotalMinutesMax
        /\ sw # {} => AllStaffMinutes(req, X, v) \in 0..AllStaffMinutesMax
        /\ FairnessPenalty(req, X, v) \in 0..TotalMinutesMax

TotalUnmet(U, v) == SumSet(U, v.u)

\* the expression handed to model.Minimize, in units of B: A, D and B are multiples of
\* B, so the order of the values is that of A*unmet + D*utilization + B*fairness, and
\* the values stay within the integers of the model checker
Objective(req, X, U, v) ==
    (IF U # {} THEN (A \div B) * TotalUnmet(U, v) ELSE 0)
    + (IF X # {} THEN (D \div B) * UtilizationPenalty(req, X, v) ELSE 0)
    + (IF X # {} THEN (B \div B) * FairnessPenalty(req, X, v) ELSE 0)

----------------------------------------------------------------------------
(* The built model: its feasible and optimal assignments *)

\* every constraint _build_model adds, and what _add_hints adds before solver.Solve
Feasible(req, X, Y, U, v) ==
    /\ v.x \subseteq X /\ v.y \subseteq Y
    /\ DOMAIN v.u = U /\ \A n \in U : v.u[n] \in 0..UBound(req, n)
    /\ FeasibilityLinks(req, X, Y, v)
    /\ AddCoverageConstraintsWithSlack(req, Y, U, v)
    /\ AddOneShiftPerDayConstraints(req, X, v)
    /\ AddRestConstraints(req, X, v)
    /\ AddWeeklyContractHoursConstraints(req, X, v)
    /\ AuxVariableDomains(req, X, v)
    /\ AddHints(req, X, v)

RECURSIVE FunProduct(_, _)
\* the functions f on S with f[n] \in vals[n]
FunProduct(S, vals) ==
    IF S = {} THEN { << >> }
    ELSE LET n == CHOOSE n \in S : TRUE
             rest == FunProduct(S \ {n}, vals)
         IN  { [m \in S |-> IF m = n THEN val ELSE f[m]] : f \in rest, val \in vals[n] }

\* the values of u[name] its domain and its coverage constraints allow, given x and y
UValues(req, Y, v, name) ==
    { val \in 0..UBound(req, name) :
        \A key \in ULoopKeys(req) :
            UName(key[1], key[3], key[2], key[4]) = name => CoverageCell(req, Y, v, key, val) }

\* the feasible assignments, enumerated constraint by constraint: x against the
\* constraints over x alone, then y against the links, then each u against its domain
\* and its coverage constraint (every constraint of Feasible is applied once).
\* The links bound y from above only, so a y variable that breaks them when it alone
\* is 1 breaks them in every assignment where it is 1: such variables are left out
\* before the subsets of Y are enumerated.
FeasibleSolutions(req, X, Y, U) ==
    LET xOnly(xs) == LET v == [x |-> xs, y |-> {}, u |-> << >>]
                     IN  /\ AddOneShiftPerDayConstraints(req, X, v)
                         /\ AddRestConstraints(req, X, v)
                         /\ AddWeeklyContractHoursConstraints(req, X, v)
                         /\ AuxVariableDomains(req, X, v)
                         /\ AddHints(req, X, v)
        xsOK == { xs \in SUBSET X : xOnly(xs) }
        links(xs, ys) == FeasibilityLinks(req, X, Y, [x |-> xs, y |-> ys, u |-> << >>])
        yCand(xs) == { n \in Y : links(xs, {n}) }
        xyOK == UNION { { [x |-> xs, y |-> ys, u |-> << >>]
                          : ys \in { ys \in SUBSET yCand(xs) : links(xs, ys) } }
                        : xs \in { xs \in xsOK : links(xs, {}) } }
    IN  UNION { { [x |-> xy.x, y |-> xy.y, u |-> f]
                  : f \in FunProduct(U, [n \in U |-> UValues(req, Y, xy, n)]) }
                : xy \in xyOK }

OptimalSolutions(req, X, U, F) ==
    LET scored == { << Objective(req, X, U, v), v >> : v \in F }
        best == SetMin({ p[1] : p \in scored })
    IN  { p[2] : p \in { q \in scored : q[1] = best } }

NoSol == [x |-> {}, y |-> {}, u |-> << >>]

\* what solver.Solve can return for the built model: INFEASIBLE when it has no feasible
\* assignment; otherwise OPTIMAL with an optimal one, FEASIBLE with any feasible one
\* (time limit reached with an incumbent) or UNKNOWN (time limit reached without)
EngineOutcomes(req, X, Y, U) ==
    LET F == FeasibleSolutions(req, X, Y, U)
    IN  IF F = {} THEN { [status |-> "INFEASIBLE", sol |-> NoSol] }
        ELSE { [status |-> "OPTIMAL", sol |-> v] : v \in OptimalSolutions(req, X, U, F) }
               \cup { [status |-> "FEASIBLE", sol |-> v] : v \in F }
               \cup { [status |-> "UNKNOWN", sol |-> NoSol] }

----------------------------------------------------------------------------
(* Solution extractor: _extract_assignments *)

\* the keys of x in insertion order: loops over E, D, WARDS, SLOTS (a repeated key
\* keeps its first position)
XOrder(req) ==
    LET dates == Dates(req)
        hasDemandCell == HasDemandCell(req)
        nE == Len(req.staff)
        nD == Len(dates)
        nW == Len(req.wards)
        nS == Len(req.shiftTypes)
        at(n) == LET m == n - 1
                 IN  << (m \div (nD * nW * nS)) + 1, ((m \div (nW * nS)) % nD) + 1,
                        ((m \div nS) % nW) + 1, (m % nS) + 1 >>
        name(n) == XName(req.staff[at(n)[1]].id, dates[at(n)[2]],
                         req.shiftTypes[at(n)[4]].code, req.wards[at(n)[3]])
        cell(n) == << dates[at(n)[2]], req.wards[at(n)[3]], req.shiftTypes[at(n)[4]].code >>
        keep(n) == /\ cell(n) \in hasDemandCell
                   /\ \A m \in 1..(n - 1) : cell(m) \in hasDemandCell => name(m) # name(n)
        idx == SelectSeq([n \in 1..(nE * nD * nW * nS) |-> n], keep)
    IN  IF hasDemandCell = {} THEN << >> ELSE [n \in DOMAIN idx |-> name(idx[n])]

\* var_name.split('_') and the lookup of the shift type by code: the assignment of a
\* variable name, or << >> when the name has fewer than 5 parts or no shift type matches
ParseAssignment(req, name) ==
    IF Len(name) < 5 THEN << >>
    ELSE LET slot == << name[4] >>
             sts == { i \in DOMAIN req.shiftTypes : req.shiftTypes[i].code = slot }
         IN  IF sts = {} THEN << >>
             ELSE << [staffId |-> << name[2] >>, wardId |-> << name[5] >>, date |-> name[3],
                      slot |-> slot, shiftTypeId |-> req.shiftTypes[SetMin(sts)].id] >>

RECURSIVE Flatten(_)
Flatten(ss) == IF ss = << >> THEN << >> ELSE Head(ss) \o Flatten(Tail(ss))

ExtractAssignments(req, v) ==
    LET ones == SelectSeq(XOrder(req), LAMBDA n : XVal(v, n) = 1)
    IN  Flatten([n \in DOMAIN ones |-> ParseAssignment(req, ones[n])])

----------------------------------------------------------------------------
(* Diagnostics summary: _create_assignments_summary (the counts other parts read) *)

\* assigned_by_skill[(d, w, s, k)]: the y values of the staff who have skill k
AssignedBySkill(req, Y, v, key) ==
    LET st == { i \in DOMAIN req.staff :
                  /\ key[4] \in req.staff[i].skills
                  /\ YName(req.staff[i].id, key[1], key[3], key[2], key[4]) \in Y }
    IN  SumSet(st, [i \in st |-> YVal(v, YName(req.staff[i].id, key[1], key[3], key[2], key[4]))])

\* total_unmet: sum over the demand list of max(0, required - assigned)
SummaryTotalUnmet(req, Y, v) ==
    LET keys == DemandReqKeys(req)
    IN  SumSet(keys, [key \in keys |->
                        LET unmet == DemandReq(req, key) - AssignedBySkill(req, Y, v, key)
                        IN  IF unmet > 0 THEN unmet ELSE 0])

\* cell_fill[cell]["unmet"]: sum over the skills of the entry of max(0, required - assigned)
CellFillUnmet(req, Y, v, cell) ==
    LET keys == { key \in DemandReqKeys(req) : << key[1], key[2], key[3] >> = cell }
    IN  SumSet(keys, [key \in keys |->
                        LET unmet == DemandReq(req, key) - AssignedBySkill(req, Y, v, key)
                        IN  IF unmet > 0 THEN unmet ELSE 0])

CreateAssignmentsSummary(req, asg, Y, v) ==
    [total_assigned |-> Len(asg), total_unmet |-> SummaryTotalUnmet(req, Y, v)]

----------------------------------------------------------------------------
(* RotaSolverCore.solve *)

NoDiag == [infeasible |-> FALSE, notes |-> << >>,
           summary |-> [total_assigned |-> 0, total_unmet |-> 0]]
NoResponse == [code |-> 0]
NoExplain == [code |-> 0]

\* the module state of main.py when the first call has been parsed and stored:
\* LAST["request"] holds it, LAST["response"] is None, solutions is {}; the offline
\* validator has not run
FirstCall ==
    /\ call = [n |-> 1, endpoint |-> "solve_full"]
    /\ LAST = [request |-> request, requestCall |-> 1,
               response |-> NoResponse, responseCall |-> 0]
    /\ solutions = << >>
    /\ explained = NoExplain
    /\ exitCode = -1

Init ==
    /\ request \in Requests
    /\ pc = "start"
    /\ xvars = {} /\ yvars = {} /\ uvars = {}
    /\ status = "NONE"
    /\ sol = NoSol
    /\ assignments = << >>
    /\ diagnostics = NoDiag
    /\ response = NoResponse
    /\ FirstCall

\* _build_model: the variables (and constraints) of the request, or KeyError
BuildModel ==
    /\ pc = "start"
    /\ \/ /\ BuildRaisesKeyError(request)
          /\ pc' = "build_error"
          /\ UNCHANGED << xvars, yvars, uvars >>
       \/ /\ ~BuildRaisesKeyError(request)
          /\ pc' = "built"
          /\ xvars' = XVars(request)
          /\ yvars' = YVars(request)
          /\ uvars' = UVars(request)
    /\ UNCHANGED << request, status, sol, assignments, diagnostics, response,
                   call, LAST, solutions, explained, exitCode >>

\* solver.Solve(model): the external CP-SAT engine.  It proves optimality, stops at the
\* time limit with an incumbent or without one, or proves infeasibility.
EngineSolve ==
    /\ pc = "built"
    /\ pc' = "solved"
    /\ \E r \in EngineOutcomes(request, xvars, yvars, uvars) :
          /\ status' = r.status
          /\ sol' = r.sol
    /\ UNCHANGED << request, xvars, yvars, uvars, assignments, diagnostics, response,
                   call, LAST, solutions, explained, exitCode >>

\* the rest of solve: extraction, then the diagnostics (built the same way whatever the
\* status).  solver.Value raises when the engine holds no solution, which the first
\* variable read meets.
Finish ==
    /\ pc = "solved"
    /\ \/ /\ status \notin {"OPTIMAL", "FEASIBLE"} /\ xvars # {}
          /\ pc' = "raised"
          /\ UNCHANGED << assignments, diagnostics >>
       \/ /\ status \in {"OPTIMAL", "FEASIBLE"} \/ xvars = {}
          /\ pc' = "returned"
          /\ assignments' = ExtractAssignments(request, sol)
          /\ diagnostics' = [infeasible |-> FALSE,
                             notes |-> << << "Validation temporarily disabled" >> >>,
                             summary |-> CreateAssignmentsSummary(
                                            request, ExtractAssignments(request, sol),
                                            yvars, sol)]
    /\ UNCHANGED << request, xvars, yvars, uvars, status, sol, response,
                   call, LAST, solutions, explained, exitCode >>

\* hash(str(assignments)): string hashing is keyed by a secret drawn when the process
\* starts, so the value is any 64-bit integer; the outcomes kept here include a negative
\* one and two that are congruent modulo 100000000
HashOutcomes == { -7, 7, 100000007 }

HexDigits == << "0", "1", "2", "3", "4", "5", "6", "7",
                "8", "9", "a", "b", "c", "d", "e", "f" >>

\* format(n, "08x") for 0 <= n < 16^8
Hex8(n) == [i \in 1..8 |-> HexDigits[((n \div (16 ^ (8 - i))) % 16) + 1]]

\* f"sol_{h % 100000000:08x}": the prefix, then the eight hexadecimal digits
SolutionId(h) == << "sol" >> \o Hex8(h % 100000000)

\* f"repair_{h % 100000000:08x}" of /solve_repair
RepairId(h) == << "repair" >> \o Hex8(h % 100000000)

\* the rest of solve_full (solve_repair) once solve has returned or raised: the response
\* with its solutionId, saved in LAST["response"], or HTTP 500 for any exception of the
\* solver, which leaves LAST["response"] as it was.  Nothing is written to solutions.
Respond ==
    /\ pc \in {"returned", "raised", "build_error"}
    /\ pc' = "responded"
    /\ \/ /\ pc = "returned"
          /\ \E h \in HashOutcomes :
                response' = [code |-> 200,
                             solutionId |-> IF call.endpoint = "solve_repair"
                                            THEN RepairId(h) ELSE SolutionId(h),
                             assignments |-> assignments, diagnostics |-> diagnostics]
          /\ LAST' = [LAST EXCEPT !.response = response', !.responseCall = call.n]
       \/ /\ pc # "returned"
          /\ response' = [code |-> 500]
          /\ LAST' = LAST
    /\ UNCHANGED << request, xvars, yvars, uvars, status, sol, assignments, diagnostics,
                    call, solutions, explained, exitCode >>

Next == BuildModel \/ EngineSolve \/ Finish \/ Respond
Spec == Init /\ [][Next]_vars

----------------------------------------------------------------------------
(* The worked scenarios: solve_full on the requests S1, S2, S3, S5 and S6, with the   *)
(* contract hours and the order of the staff list the scenarios leave open           *)

ScenarioRules == [minRestHours |-> 11, maxConsecutiveNights |-> 3, oneShiftPerDay |-> TRUE]

\* typical full-time hours, the least hours whose one-day cap holds an 8-hour shift,
\* and no effective cap
ScenarioContracts == { 40, 56, 168 }

\* NIGHT of scenario S5: 00:00-08:00 with isNight set
NIGHT5 == [id |-> << "night" >>, code |-> << "NIGHT" >>, start |-> 0, end |-> 480,
           isNight |-> TRUE, durationMinutes |-> 480]

Member(id, skills, hours) ==
    [id |-> << id >>, skills |-> skills, eligibleWards |-> {W1},
     contractHoursPerWeek |-> hours]

Cell(d, shift, reqs) == [date |-> d, wardId |-> W1, slot |-> shift.code, requirements |-> reqs]

ScenarioRequest(first, last, shifts, staff, demand) ==
    [horizon |-> [start |-> first, end |-> last], wards |-> << W1 >>, shiftTypes |-> shifts,
     staff |-> staff, demand |-> demand, rules |-> ScenarioRules, locks |-> << >>,
     preferences |-> << >>, hints |-> << >>]

\* S1: one ward, the date 2025-01-01, DAY (480 min), one staff member with skill
\* General, demand {General: 1}
S1(hours) ==
    ScenarioRequest("2025-01-01", "2025-01-01", << DAY >>,
                    << Member("e1", {"General"}, hours) >>,
                    { Cell("2025-01-01", DAY, ("General" :> 1)) })

\* S2: as S1, the staff member having skills {MRI}
S2(hours) ==
    ScenarioRequest("2025-01-01", "2025-01-01", << DAY >>,
                    << Member("e1", {"MRI"}, hours) >>,
                    { Cell("2025-01-01", DAY, ("General" :> 1)) })

\* S3: as S1 with two identical staff A and B, listed in the order given
S3(hours, ids) ==
    ScenarioRequest("2025-01-01", "2025-01-01", << DAY >>,
                    [i \in DOMAIN ids |-> Member(ids[i], {"General"}, hours)],
                    { Cell("2025-01-01", DAY, ("General" :> 1)) })

\* S5: one staff member, two consecutive dates, NIGHT and DAY, demand for NIGHT on the
\* first date and for DAY on the second only
S5(hours) ==
    ScenarioRequest("2025-01-01", "2025-01-02", << NIGHT5, DAY >>,
                    << Member("e1", {"General"}, hours) >>,
                    { Cell("2025-01-01", NIGHT5, ("General" :> 1)),
                      Cell("2025-01-02", DAY, ("General" :> 1)) })

\* S6: one staff member with 8 contract hours, the ISO week Monday 2024-12-30 to
\* Sunday 2025-01-05, seven DAY cells demanding {General: 1}
S6 ==
    ScenarioRequest(Iso(0), Iso(6), << DAY >>,
                    << Member("e1", {"General"}, 8) >>,
                    { Cell(Iso(n), DAY, ("General" :> 1)) : n \in 0..6 })

\* S1 before any demand is entered
S1NoDemand(hours) ==
    ScenarioRequest("2025-01-01", "2025-01-01", << DAY >>,
                    << Member("e1", {"General"}, hours) >>, {})

ScenarioRequests ==
    { S1(h) : h \in ScenarioContracts }
      \cup { S2(h) : h \in ScenarioContracts }
      \cup { S3(h, ids) : h \in ScenarioContracts, ids \in { << "A", "B" >>, << "B", "A" >> } }
      \cup { S5(h) : h \in ScenarioContracts }
      \cup { S1NoDemand(h) : h \in ScenarioContracts }
      \cup { S6 }

ScenarioInit ==
    /\ request \in ScenarioRequests
    /\ pc = "start"
    /\ xvars = {} /\ yvars = {} /\ uvars = {}
    /\ status = "NONE"
    /\ sol = NoSol
    /\ assignments = << >>
    /\ diagnostics = NoDiag
    /\ response = NoResponse
    /\ FirstCall

ScenarioSpec == ScenarioInit /\ [][Next]_vars

----------------------------------------------------------------------------
(* Requests that carry preferences and hints: solve_full on S1 and S3 with the   *)
(* optional lists filled                                                        *)

\* preferences lists naming the first staff member of the request
PreferenceChoices(req) ==
    { << >>,
      << [staffId |-> req.staff[1].id, date |-> req.horizon.start,
          preferOff |-> TRUE, preferOn |-> FALSE] >>,
      << [staffId |-> req.staff[1].id, date |-> req.horizon.start,
          preferOff |-> FALSE, preferOn |-> TRUE] >> }

\* hints lists: none, or the first staff member on the first cell of the horizon
HintChoices(req) ==
    { << >>,
      << [staffId |-> req.staff[1].id, wardId |-> req.wards[1],
          date |-> req.horizon.start, slot |-> req.shiftTypes[1].code] >> }

\* the requests that differ from req in their preferences and hints lists only
WithPreferencesAndHints(req) ==
    { [req EXCEPT !.preferences = p, !.hints = h]
      : p \in PreferenceChoices(req), h \in HintChoices(req) }

HintedRequests ==
    UNION { WithPreferencesAndHints(r)
            : r \in { S1(h) : h \in ScenarioContracts }
                      \cup { S3(h, << "A", "B" >>) : h \in ScenarioContracts } }

HintedInit ==
    /\ request \in HintedRequests
    /\ pc = "start"
    /\ xvars = {} /\ yvars = {} /\ uvars = {}
    /\ status = "NONE"
    /\ sol = NoSol
    /\ assignments = << >>
    /\ diagnostics = NoDiag
    /\ response = NoResponse
    /\ FirstCall

HintedSpec == HintedInit /\ [][Next]_vars

----------------------------------------------------------------------------
(* Runs of night shifts: solve_full on one staff member without an effective cap,  *)
(* NIGHT (20:00-08:00) demanded on every date of the horizon                       *)

MaxNightsChoices == { 1, 2, 3 }
MaxNightDays == 3

NightRequest(days, maxNights, minRest) ==
    [ScenarioRequest(Iso(0), Iso(days - 1), << NIGHT >>,
                     << Member("e1", {"General"}, 168) >>,
                     { Cell(Iso(n), NIGHT, ("General" :> 1)) : n \in 0..(days - 1) })
       EXCEPT !.rules = [minRestHours |-> minRest, maxConsecutiveNights |-> maxNights,
                         oneShiftPerDay |-> TRUE]]

NightRequests ==
    { NightRequest(days, m, rest)
      : days \in 1..MaxNightDays, m \in MaxNightsChoices, rest \in { 8, 11 } }

NightInit ==
    /\ request \in NightRequests
    /\ pc = "start"
    /\ xvars = {} /\ yvars = {} /\ uvars = {}
    /\ status = "NONE"
    /\ sol = NoSol
    /\ assignments = << >>
    /\ diagnostics = NoDiag
    /\ response = NoResponse
    /\ FirstCall

NightSpec == NightInit /\ [][Next]_vars

----------------------------------------------------------------------------
(* The service of main.py over several calls: /solve_full, /solve_repair, /explain.  *)
(* A handler has no await in its body, so the calls are served one after another.    *)

MaxCalls == 2

Endpoints == { "solve_full", "solve_repair" }

\* bodies that pass SolverRequestModel(**request_data): S1 and S2 solve, S5 fails in the
\* solver
ServiceRequests == { S1(56), S2(56), S5(56) }

\* the next POST, up to the call of solver.solve: a body that fails validation is
\* answered 422 before anything is stored; a valid one is stored in LAST["request"]
Receive ==
    /\ pc = "responded"
    /\ call.n < MaxCalls
    /\ \E ep \in Endpoints :
         /\ call' = [n |-> call.n + 1, endpoint |-> ep]
         /\ \/ /\ response' = [code |-> 422]
               /\ pc' = "responded"
               /\ UNCHANGED << request, xvars, yvars, uvars, status, sol, assignments,
                               diagnostics, LAST >>
            \/ /\ \E r \in ServiceRequests :
                     /\ request' = r
                     /\ LAST' = [LAST EXCEPT !.request = r, !.requestCall = call.n + 1]
               /\ pc' = "start"
               /\ xvars' = {} /\ yvars' = {} /\ uvars' = {}
               /\ status' = "NONE"
               /\ sol' = NoSol
               /\ assignments' = << >>
               /\ diagnostics' = NoDiag
               /\ response' = NoResponse
    /\ explained' = NoExplain
    /\ UNCHANGED << solutions, exitCode >>

\* a solutionId no response carries
UnknownId == << "sol", "unknown" >>

\* the queries of GET /explain: the solutionId of the last stored response with each of
\* its assignments, and an identifier that was never returned
ExplainQueries ==
    LET ids == (IF LAST.response.code = 200 THEN { LAST.response.solutionId } ELSE {})
                \cup { UnknownId }
        asg == IF LAST.response.code = 200 THEN Range(LAST.response.assignments) ELSE {}
        tuples == { [staffId |-> a.staffId, date |-> a.date, slot |-> a.slot] : a \in asg }
                    \cup { [staffId |-> << "e1" >>, date |-> "2025-01-01",
                            slot |-> << "NONE" >>] }
    IN  { [scheduleId |-> id, staffId |-> t.staffId, date |-> t.date, slot |-> t.slot]
          : id \in ids, t \in tuples }

\* explain_assignment: the lookup in solutions, then the search of the assignment
ExplainAssignment(q) ==
    IF q.scheduleId \notin DOMAIN solutions
    THEN [code |-> 404, detail |-> "Solution not found", query |-> q]
    ELSE LET found == { n \in DOMAIN solutions[q.scheduleId].assignments :
                          LET a == solutions[q.scheduleId].assignments[n]
                          IN  a.staffId = q.staffId /\ a.date = q.date /\ a.slot = q.slot }
         IN  IF found = {}
             THEN [code |-> 404, detail |-> "Assignment not found", query |-> q]
             ELSE [code |-> 200, detail |-> "explanation", query |-> q]

\* GET /explain
Explain ==
    /\ pc = "responded"
    /\ \E q \in ExplainQueries : explained' = ExplainAssignment(q)
    /\ UNCHANGED << request, pc, xvars, yvars, uvars, status, sol, assignments,
                    diagnostics, response, call, LAST, solutions,
                    exitCode >>

ServiceInit ==
    /\ request \in ServiceRequests
    /\ pc = "start"
    /\ xvars = {} /\ yvars = {} /\ uvars = {}
    /\ status = "NONE"
    /\ sol = NoSol
    /\ assignments = << >>
    /\ diagnostics = NoDiag
    /\ response = NoResponse
    /\ FirstCall

ServiceNext == Next \/ Receive \/ Explain
ServiceSpec == ServiceInit /\ [][ServiceNext]_vars

----------------------------------------------------------------------------
(* Long horizons: solve_full on one staff member without an effective weekly cap,   *)
(* a 12-hour LATE shift demanded on every date of a horizon of up to two weeks       *)

\* 20:00-08:00, not flagged as a night shift
LATE == [id |-> << "late" >>, code |-> << "LATE" >>, start |-> 1200, end |-> 480,
         isNight |-> FALSE, durationMinutes |-> 720]

LongHorizonDays == { 1, 2, 14 }

\* the staff member lacks the demanded skill, so the model has no y variable
LongRequest(days) ==
    ScenarioRequest(Iso(0), Iso(days - 1), << LATE >>,
                    << Member("e1", {"MRI"}, 168) >>,
                    { Cell(Iso(n), LATE, ("General" :> 1)) : n \in 0..(days - 1) })

LongInit ==
    /\ request \in { LongRequest(days) : days \in LongHorizonDays }
    /\ pc = "start"
    /\ xvars = {} /\ yvars = {} /\ uvars = {}
    /\ status = "NONE"
    /\ sol = NoSol
    /\ assignments = << >>
    /\ diagnostics = NoDiag
    /\ response = NoResponse
    /\ FirstCall

LongSpec == LongInit /\ [][Next]_vars

----------------------------------------------------------------------------
(* The offline validator: validate_solution.py on the request and the response of a  *)
(* call answered 200 (the files the end-to-end test writes)                          *)

\* build_demand_index: (date, wardId, slot) -> sum of the requirements of its entries
DemandIndex(req, cell) ==
    LET entries == { dm \in req.demand : << dm.date, dm.wardId, dm.slot >> = cell }
    IN  SumSet(entries, [dm \in entries |->
                           SumSet(DOMAIN dm.requirements, dm.requirements)])

\* shift_type_map.get(shiftTypeId, shiftTypeId): the code of the shift type of that id
\* (the last one in the list), the id itself when there is none
ResolveSlot(req, shiftTypeId) ==
    LET idx == { i \in DOMAIN req.shiftTypes : req.shiftTypes[i].id = shiftTypeId }
    IN  IF idx = {} THEN shiftTypeId ELSE req.shiftTypes[SetMax(idx)].code

\* summarize_assignments: cell_assignments[(date, wardId, slot)], 0 for a missing key
CellAssignments(req, resp, cell) ==
    Cardinality({ n \in DOMAIN resp.assignments :
                    LET a == resp.assignments[n]
                    IN  << a.date, a.wardId, ResolveSlot(req, a.shiftTypeId) >> = cell })

\* main: total_unmet = max(0, total_required - total_assigned) over all cells together
ValidatorTotalUnmet(req, resp) ==
    LET cells == HasDemandCell(req)
        totalRequired == SumSet(cells, [c \in cells |-> DemandIndex(req, c)])
        totalAssigned == Len(resp.assignments)
    IN  IF totalRequired - totalAssigned > 0 THEN totalRequired - totalAssigned ELSE 0

\* main: sys.exit(2) if total_unmet > 0 else sys.exit(0)
ValidatorExit(req, resp) == IF ValidatorTotalUnmet(req, resp) > 0 THEN 2 ELSE 0

\* python validate_solution.py --request ... --response ...
Validate ==
    /\ pc = "responded"
    /\ response.code = 200
    /\ exitCode = -1
    /\ exitCode' = ValidatorExit(request, response)
    /\ UNCHANGED << request, pc, xvars, yvars, uvars, status, sol, assignments,
                    diagnostics, response, call, LAST, solutions, explained >>

\* two identical staff and two cells on one date: EARLY (8 hours) and EVE (4 hours),
\* each requiring General: 1
TwoCells(hours) ==
    ScenarioRequest("2025-01-01", "2025-01-01", << EARLY, EVE >>,
                    << Member("A", {"General"}, hours), Member("B", {"General"}, hours) >>,
                    { Cell("2025-01-01", EARLY, ("General" :> 1)),
                      Cell("2025-01-01", EVE, ("General" :> 1)) })

ValidatorRequests ==
    { S1(h) : h \in ScenarioContracts } \cup { TwoCells(h) : h \in ScenarioContracts }

ValidatorInit ==
    /\ request \in ValidatorRequests
    /\ pc = "start"
    /\ xvars = {} /\ yvars = {} /\ uvars = {}
    /\ status = "NONE"
    /\ sol = NoSol
    /\ assignments = << >>
    /\ diagnostics = NoDiag
    /\ response = NoResponse
    /\ FirstCall

ValidatorNext == Next \/ Validate
ValidatorSpec == ValidatorInit /\ [][ValidatorNext]_vars

----------------------------------------------------------------------------
(* Properties of the solutions returned by solve *)

Returned == pc = "returned"
HasSolution == status \in {"OPTIMAL", "FEASIBLE"}

ShiftByCode(req, code) == CHOOSE st \in Range(req.shiftTypes) : st.code = code

\* d2 is the horizon date that follows the horizon date d1
ConsecutiveDates(req, d1, d2) ==
    \E n \in 1..(Len(Dates(req)) - 1) : Dates(req)[n] = d1 /\ Dates(req)[n + 1] = d2

\* C1: every returned assignment (e, w, d, s) has w in e.eligibleWards, (d, w, s) a cell
\* of the demand list, and s the code of some shift type.
C1_AssignmentsWellFormed ==
    Returned =>
      \A n \in DOMAIN assignments :
        LET a == assignments[n]
        IN  /\ \E i \in DOMAIN request.staff :
                 /\ request.staff[i].id = a.staffId
                 /\ a.wardId \in request.staff[i].eligibleWards
            /\ << a.date, a.wardId, a.slot >> \in HasDemandCell(request)
            /\ \E st \in Range(request.shiftTypes) : st.code = a.slot

\* C2: a returned solution holds at most one assignment per staff member and date,
\* whatever rules.oneShiftPerDay says.
C2_AtMostOneAssignmentPerDay ==
    Returned =>
      \A m, n \in DOMAIN assignments :
        m # n => ~(/\ assignments[m].staffId = assignments[n].staffId
                   /\ assignments[m].date = assignments[n].date)

\* a staff member with several variables on a date is assigned there, the flag being off
C2_Witness ==
    /\ Returned
    /\ ~request.rules.oneShiftPerDay
    /\ Len(request.shiftTypes) * Len(request.wards) >= 2
    /\ Len(assignments) >= 1

\* C3: assignments of one staff member on consecutive horizon dates d, d+1 with slots
\* s1, s2 have forbidden_adjacency[s1][s2] false.
C3_NoForbiddenAdjacency ==
    Returned =>
      \A m, n \in DOMAIN assignments :
        (/\ assignments[m].staffId = assignments[n].staffId
         /\ ConsecutiveDates(request, assignments[m].date, assignments[n].date))
        => ~ForbiddenAdjacency(request)[ShiftByCode(request, assignments[m].slot).id]
                                       [ShiftByCode(request, assignments[n].slot).id]

\* a staff member works on two consecutive dates
C3_Witness ==
    /\ Returned
    /\ \E m, n \in DOMAIN assignments :
         /\ assignments[m].staffId = assignments[n].staffId
         /\ ConsecutiveDates(request, assignments[m].date, assignments[n].date)

\* minutes of the returned assignments of staff id on the dates of ISO week wk
AssignedWeekMinutes(req, asg, id, wk) ==
    LET idx == { n \in DOMAIN asg :
                   /\ asg[n].staffId = id
                   /\ asg[n].date \in Range(Dates(req))
                   /\ WeekKey(asg[n].date) = wk }
    IN  SumSet(idx, [n \in idx |-> ShiftByCode(req, asg[n].slot).durationMinutes])

\* cap(e, b) = floor(contractHoursPerWeek * 60 * |Db| / 7)
ClaimedCap(staff, daysInWeek) == (staff.contractHoursPerWeek * 60 * daysInWeek) \div 7

\* C4: for every staff member and ISO-week bin of the horizon, the minutes of the
\* returned assignments on the dates of the bin are at most cap(e, b).
C4_WeeklyCapRespected ==
    Returned =>
      \A i \in DOMAIN request.staff, wk \in DOMAIN WeekBins(request) :
        AssignedWeekMinutes(request, assignments, request.staff[i].id, wk)
          <= ClaimedCap(request.staff[i], Len(WeekBins(request)[wk]))

\* a staff member works in a partial week whose cap excludes an 8-hour shift
C4_Witness ==
    /\ Returned
    /\ \E i \in DOMAIN request.staff, wk \in DOMAIN WeekBins(request) :
         /\ AssignedWeekMinutes(request, assignments, request.staff[i].id, wk) > 0
         /\ ClaimedCap(request.staff[i], Len(WeekBins(request)[wk])) < 480

\* staff eligible for the ward of (d, w, s, k) and possessing skill k
EligibleSkilled(req, key) ==
    { i \in DOMAIN req.staff :
        key[4] \in req.staff[i].skills /\ key[2] \in req.staff[i].eligibleWards }

\* number of returned assignments in cell (d, w, s) of eligible staff with skill k
CellCount(req, asg, key) ==
    Cardinality({ n \in DOMAIN asg :
                    /\ << asg[n].date, asg[n].wardId, asg[n].slot >> = << key[1], key[2], key[3] >>
                    /\ \E i \in EligibleSkilled(req, key) : req.staff[i].id = asg[n].staffId })

SlackOf(key) == sol.u[UName(key[1], key[3], key[2], key[4])]

\* C5 as stated: for every (d, w, s, k) with Req = r, the number of assignments in the
\* cell of eligible staff with skill k, plus u[d,w,s,k], equals r, and u >= 0.
C5_CountPlusSlackIsRequired ==
    (Returned /\ HasSolution) =>
      \A key \in ULoopKeys(request) :
        /\ CellCount(request, assignments, key) + SlackOf(key) = DemandReq(request, key)
        /\ SlackOf(key) >= 0

\* eligible staff with skill k whose y[e,d,w,s,k] is 1
Contributing(req, key) ==
    { i \in EligibleSkilled(req, key) :
        YName(req.staff[i].id, key[1], key[3], key[2], key[4]) \in sol.y }

\* C5 amended: for every (d, w, s, k) with Req = r, the number of eligible staff with
\* skill k whose y[e,d,w,s,k] is 1, plus u[d,w,s,k], equals r, and u >= 0; each of them
\* has x[e,d,w,s] = 1 (so assigned eligible skilled staff plus u is at least r).
C5_ContributionsPlusSlackIsRequired ==
    (Returned /\ HasSolution) =>
      \A key \in ULoopKeys(request) :
        /\ Cardinality(Contributing(request, key)) + SlackOf(key) = DemandReq(request, key)
        /\ SlackOf(key) >= 0
        /\ \A i \in Contributing(request, key) :
             XName(request.staff[i].id, key[1], key[3], key[2]) \in sol.x

\* a cell where one eligible skilled staff member contributes skill k and another one
\* (or the same one for another skill) is assigned without contributing it
C5_Witness ==
    /\ Returned /\ HasSolution
    /\ \E key \in ULoopKeys(request) :
         /\ Contributing(request, key) # {}
         /\ \/ \E i \in EligibleSkilled(request, key) \ Contributing(request, key) :
                 XName(request.staff[i].id, key[1], key[3], key[2]) \in sol.x
            \/ \E other \in ULoopKeys(request) :
                 /\ << other[1], other[2], other[3] >> = << key[1], key[2], key[3] >>
                 /\ other[4] # key[4]
                 /\ Contributing(request, key) \cap EligibleSkilled(request, other) # {}
                 /\ SlackOf(other) > 0

\* a note names a lock when it holds every part of the lock's staff, ward, date and slot
NoteNamesLock(note, lock) ==
    (Range(lock.staffId) \cup Range(lock.wardId) \cup {lock.date} \cup Range(lock.slot))
      \subseteq Range(note)

\* C6: every lock of the request is among the returned assignments, or the diagnostics
\* record it as dropped.
C6_LocksHonouredOrReported ==
    Returned =>
      \A n \in DOMAIN request.locks :
        LET lock == request.locks[n]
        IN  \/ \E m \in DOMAIN assignments :
                 /\ assignments[m].staffId = lock.staffId
                 /\ assignments[m].wardId = lock.wardId
                 /\ assignments[m].date = lock.date
                 /\ assignments[m].slot = lock.slot
            \/ \E k \in DOMAIN diagnostics.notes : NoteNamesLock(diagnostics.notes[k], lock)

\* C7: in every optimal solution of the built model the total unmet demand is the least
\* total unmet demand of any feasible solution.
C7_UnmetDemandFirst ==
    (pc = "solved" /\ status = "OPTIMAL") =>
      \A v \in FeasibleSolutions(request, xvars, yvars, uvars) :
        TotalUnmet(uvars, sol) <= TotalUnmet(uvars, v)

\* minutes from the end of s1 placed on day t (rolled +24h when s1 is a night shift) to
\* the start of s2 on day t+1
ClaimedRestMinutes(s1, s2) ==
    (s2.start + 1440) - (s1.end + (IF s1.isNight THEN 1440 ELSE 0))

\* C8: F[s1, s2] is true iff that rest is strictly less than rules.minRestHours.
C8_ForbiddenIffBelowMinRest ==
    pc # "start" =>
      \A s1 \in Range(request.shiftTypes), s2 \in Range(request.shiftTypes) :
        ForbiddenAdjacency(request)[s1.id][s2.id]
          <=> (ClaimedRestMinutes(s1, s2) < request.rules.minRestHours * 60)

\* C9: model building completes for a request whose demand list omits a cell of the
\* horizon while some cell has demand.
C9_SparseDemandBuilds ==
    (/\ HasDemandCell(request) # {}
     /\ AllCells(request.horizon, request.wards, request.shiftTypes)
          \ HasDemandCell(request) # {})
    => pc # "build_error"

\* C10: without locks, with non-negative requirement counts and contract hours, the
\* built model has a feasible solution: the engine never answers INFEASIBLE.
C10_NeverInfeasible ==
    (/\ request.locks = << >>
     /\ \A i \in DOMAIN request.staff : request.staff[i].contractHoursPerWeek >= 0
     /\ \A dm \in request.demand : \A k \in DOMAIN dm.requirements : dm.requirements[k] >= 0)
    => status # "INFEASIBLE"

\* the engine returns the all-zero assignment, the slack holding the whole demand
C10_Witness ==
    /\ pc = "solved" /\ HasSolution
    /\ request.locks = << >>
    /\ xvars # {} /\ sol.x = {} /\ sol.y = {}
    /\ uvars # {}
    /\ \A n \in uvars : sol.u[n] = UBound(request, n) /\ sol.u[n] > 0

\* the note "time_budget_exceeded_no_incumbent", as the list of its parts
NoIncumbentNote == << "time", "budget", "exceeded", "no", "incumbent" >>

\* C11: when the engine ends with a status other than OPTIMAL or FEASIBLE, solve returns
\* an empty assignment list; for UNKNOWN the diagnostics have infeasible = false and the
\* note time_budget_exceeded_no_incumbent, for INFEASIBLE they have infeasible = true.
C11_NoSolutionStatusReported ==
    (pc \in {"returned", "raised"} /\ ~HasSolution) =>
        /\ pc = "returned"
        /\ assignments = << >>
        /\ status = "UNKNOWN" =>
              /\ diagnostics.infeasible = FALSE
              /\ \E k \in DOMAIN diagnostics.notes : diagnostics.notes[k] = NoIncumbentNote
        /\ status = "INFEASIBLE" => diagnostics.infeasible = TRUE

\* the strings of the returned assignments in ascending order of Python's str
\* comparison (by code point: digits, then upper case, then lower case)
SortedStrings ==
    << "1" >> \o Calendar \o
    << "A", "B", "DAY", "EARLY", "EVE", "NIGHT", "e1", "e2", "e3", "w1", "w2", "ward" >>

StrRank(str) == CHOOSE i \in DOMAIN SortedStrings : SortedStrings[i] = str

\* the sort key (staff, date, slot, ward) of a returned assignment
SortKey(a) ==
    << StrRank(a.staffId[1]), StrRank(a.date), StrRank(a.slot[1]), StrRank(a.wardId[1]) >>

\* lexicographic k1 <= k2 on keys of four ranks
KeyLeq(k1, k2) ==
    \/ k1 = k2
    \/ \E i \in 1..4 : k1[i] < k2[i] /\ \A j \in 1..(i - 1) : k1[j] = k2[j]

\* C12: the returned assignment list is sorted ascending by (staff, date, slot, ward),
\* whatever the order of the staff, wards and shift types in the request.
C12_SortedByStaffDateSlotWard ==
    Returned =>
      \A m, n \in DOMAIN assignments :
        m < n => KeyLeq(SortKey(assignments[m]), SortKey(assignments[n]))

\* what solve returns for the engine outcome r: the assignment list and the summary
SolveOutput(req, Y, r) ==
    LET asg == ExtractAssignments(req, r.sol)
    IN  [assignments |-> asg, summary |-> CreateAssignmentsSummary(req, asg, Y, r.sol)]

\* C13: two runs of solve on the same request return the same assignment list and
\* diagnostics, also when the model has several optimal solutions: the output of a run
\* that proved optimality is the output of every such run on that request.
C13_OptimalOutputUnique ==
    (Returned /\ status = "OPTIMAL") =>
      \A r \in EngineOutcomes(request, xvars, yvars, uvars) :
        r.status = "OPTIMAL" =>
          SolveOutput(request, yvars, r)
            = [assignments |-> assignments, summary |-> diagnostics.summary]

\* C14: the solutionId of a /solve_full response is a function of the assignment list
\* alone, across processes: whatever hash value the process gives the list, the
\* identifier is the one of this response.
C14_SolutionIdOfAssignmentsAlone ==
    (pc = "responded" /\ response.code = 200) =>
      \A h \in HashOutcomes : SolutionId(h) = response.solutionId

\* the run proved optimality: the solution the scenarios describe
ReturnedOptimal == Returned /\ status = "OPTIMAL"

\* C15: scenario S1, for a typical full-time contract (40 hours among them): solve
\* returns exactly one assignment, for the staff member, and summary total_unmet = 0.
C15_S1OneAssignment ==
    (ReturnedOptimal /\ \E h \in ScenarioContracts : request = S1(h)) =>
        /\ Len(assignments) = 1
        /\ assignments[1].staffId = << "e1" >>
        /\ diagnostics.summary.total_unmet = 0

\* the slack variable of (2025-01-01, w1, DAY, General)
S1Slack == UName("2025-01-01", DAY.code, W1, "General")

\* C16: scenario S2, for every contract: solve returns no assignment, the slack of
\* (cell, General) is 1 and summary total_unmet = 1.
C16_S2NoAssignment ==
    (ReturnedOptimal /\ \E h \in ScenarioContracts : request = S2(h)) =>
        /\ assignments = << >>
        /\ sol.u[S1Slack] = 1
        /\ diagnostics.summary.total_unmet = 1

\* the request is scenario S3, for some contract and order of A and B
IsS3 ==
    \E h \in ScenarioContracts, ids \in { << "A", "B" >>, << "B", "A" >> } :
        request = S3(h, ids)

\* C17: scenario S3: the returned solution assigns exactly one of A and B.
C17_S3ExactlyOne ==
    (ReturnedOptimal /\ IsS3) =>
        /\ Len(assignments) = 1
        /\ assignments[1].staffId \in { << "A" >>, << "B" >> }

\* C18: scenario S5 (minRestHours = 11): solve does not fail, and in the solution it
\* returns at most one of the two demanded cells is filled.
C18_S5AtMostOneCellFilled ==
    (\E h \in ScenarioContracts : request = S5(h)) =>
        /\ pc # "build_error"
        /\ Returned => Len(assignments) <= 1

\* the slack variable of the DAY cell of the n-th date of the week of S6
S6Slack(n) == UName(Iso(n), DAY.code, W1, "General")

\* C19: scenario S6: the weekly cap is 480 minutes, the solution returned by a run that
\* proved optimality has exactly one assignment in the week, and u = 1 for each of the
\* other six cells.
C19_S6OneAssignmentInWeek ==
    (ReturnedOptimal /\ request = S6) =>
        /\ \A wk \in DOMAIN WeekBins(request) :
              ProratedCap(request.staff[1], Len(WeekBins(request)[wk])) = 480
        /\ Len(assignments) = 1
        /\ \A n \in 0..6 :
              Iso(n) # assignments[1].date => sol.u[S6Slack(n)] = 1

\* S6 solved to optimality with the one shift placed on a date other than the first
C19_Witness ==
    /\ ReturnedOptimal /\ request = S6
    /\ Len(assignments) = 1
    /\ assignments[1].date = Iso(3)
    /\ sol.u[S6Slack(3)] = 0

\* the objective value at the optimum of the model built for req (0 for the empty
\* model, which has no objective), in the units of Objective
OptimumOf(req) ==
    LET X == XVars(req)
        U == UVars(req)
        F == FeasibleSolutions(req, X, YVars(req), U)
    IN  SetMin({ Objective(req, X, U, v) : v \in F })

\* the request req with Req(d, w, s, k) raised by one, cell = (d, w, s): the entry of
\* the cell gets k one higher (1 when k was absent), or the list gets a new entry
RaiseDemand(req, cell, k) ==
    LET old == { dm \in req.demand : << dm.date, dm.wardId, dm.slot >> = cell }
        raised(dm) ==
            [dm EXCEPT !.requirements =
                IF k \in DOMAIN dm.requirements
                THEN [dm.requirements EXCEPT ![k] = @ + 1]
                ELSE dm.requirements @@ (k :> 1)]
        new == [date |-> cell[1], wardId |-> cell[2], slot |-> cell[3],
                requirements |-> (k :> 1)]
    IN  [req EXCEPT !.demand =
            IF old = {} THEN req.demand \cup {new}
            ELSE (req.demand \ old) \cup { raised(dm) : dm \in old }]

\* the skills named by the request
SkillUniverse(req) ==
    CollectSkills(req) \cup UNION { req.staff[i].skills : i \in DOMAIN req.staff }

\* C20: raising one requirement count (from absent or 0 too) does not lower the
\* objective value at the optimum, for every pair of requests whose models are built.
C20_MonotoneInDemand ==
    pc = "built" =>
      \A cell \in AllCells(request.horizon, request.wards, request.shiftTypes),
         k \in SkillUniverse(request) :
        LET more == RaiseDemand(request, cell, k)
        IN  ~BuildRaisesKeyError(more) => OptimumOf(request) <= OptimumOf(more)

\* the variable the n-th hint of the request names
HintedVar(req, n) ==
    XName(req.hints[n].staffId, req.hints[n].date, req.hints[n].slot, req.hints[n].wardId)

\* C21: two requests that differ only in their preferences and hints lists build models
\* with the same variables, the same feasible solutions and the same objective value
\* for each of them.
C21_PreferencesAndHintsNotBinding ==
    pc = "built" =>
      \A other \in WithPreferencesAndHints(request) :
        LET F == FeasibleSolutions(request, xvars, yvars, uvars)
        IN  /\ XVars(other) = xvars /\ YVars(other) = yvars /\ UVars(other) = uvars
            /\ FeasibleSolutions(other, xvars, yvars, uvars) = F
            /\ \A v \in F : Objective(other, xvars, uvars, v)
                              = Objective(request, xvars, uvars, v)

\* a request with a preference and a hint whose model has a feasible solution that
\* leaves the hinted variable at 0
C21_Witness ==
    /\ pc = "built"
    /\ request.preferences # << >> /\ request.hints # << >>
    /\ HintedVar(request, 1) \in xvars
    /\ \E v \in FeasibleSolutions(request, xvars, yvars, uvars) :
          HintedVar(request, 1) \notin v.x

\* the night shift types of the request
NightShifts(req) == { st \in Range(req.shiftTypes) : st.isNight }

\* staff i on night shift st in ward w on the first n dates of the horizon: the rules the
\* claim names allow it (demand cells, ward eligibility, the rest of rules.minRestHours
\* between consecutive nights, the weekly caps; one shift per date by construction)
RunAllowed(req, i, st, w, n) ==
    LET dates == Dates(req)
        weekBins == WeekBins(req)
    IN  /\ n <= Len(dates)
        /\ w \in req.staff[i].eligibleWards
        /\ \A j \in 1..n : << dates[j], w, st.code >> \in HasDemandCell(req)
        /\ n >= 2 => ClaimedRestMinutes(st, st) >= req.rules.minRestHours * 60
        /\ \A wk \in DOMAIN weekBins :
              Cardinality({ j \in 1..n : WeekKey(dates[j]) = wk }) * st.durationMinutes
                <= ProratedCap(req.staff[i], Len(weekBins[wk]))

\* the x variables of that run
RunVars(req, i, st, w, n) ==
    { XName(req.staff[i].id, Dates(req)[j], st.code, w) : j \in 1..n }

\* C22: rules.maxConsecutiveNights is not enforced: requests that differ only in it have
\* the same feasible solutions, and a run of night shifts on maxConsecutiveNights + 1
\* consecutive dates is part of a feasible solution whenever demand, eligibility, one
\* shift per day, the rest of minRestHours and the weekly caps allow it.
C22_MaxConsecutiveNightsNotEnforced ==
    pc = "built" =>
      LET F == FeasibleSolutions(request, xvars, yvars, uvars)
          n == request.rules.maxConsecutiveNights + 1
      IN  /\ \A m \in MaxNightsChoices :
                FeasibleSolutions([request EXCEPT !.rules.maxConsecutiveNights = m],
                                  xvars, yvars, uvars) = F
          /\ \A i \in DOMAIN request.staff, st \in NightShifts(request),
                w \in Range(request.wards) :
                RunAllowed(request, i, st, w, n) =>
                  \E v \in F : RunVars(request, i, st, w, n) \subseteq v.x

\* C23: between calls of /solve_full and /solve_repair (when /_debug/last can be
\* served), the stored request and the stored response belong to the same call: the
\* stored response was not written by an earlier call than the stored request.
C23_DebugLastSameCall ==
    (pc = "responded" /\ LAST.response # NoResponse) =>
        LAST.responseCall >= LAST.requestCall

\* the y variables of staff i in cell (d, w, s) that are 1 in v
SkillsUsed(req, Y, v, i, cell) ==
    { k \in req.staff[i].skills :
        LET yn == YName(req.staff[i].id, cell[1], cell[3], cell[2], k)
        IN  yn \in Y /\ yn \in v.y }

\* C24: in every feasible solution of the built model, for every staff member and demand
\* cell, the sum over skills of y[e,d,w,s,k] is at most x[e,d,w,s], also for staff who
\* are not eligible for the ward.
C24_ChannellingEverywhere ==
    (pc = "solved" /\ HasSolution) =>
      \A i \in DOMAIN request.staff, cell \in HasDemandCell(request) :
        Cardinality(SkillsUsed(request, yvars, sol, i, cell))
          <= XVal(sol, XName(request.staff[i].id, cell[1], cell[3], cell[2]))

\* the variable of the loop tuple t = (staff index, date, ward, slot)
XNameOf(req, t) == XName(req.staff[t[1]].id, t[2], t[4], t[3])

\* C25: the set of returned assignments is the set of (e, w, d, s) whose x variable is
\* 1, each with the shiftTypeId of the shift type of code s, and distinct (e, d, w, s)
\* have distinct variables, also for identifiers that contain "_".
C25_ExtractionExact ==
    (Returned /\ HasSolution) =>
      LET cells == { t \in LoopCells(request) :
                       << t[2], t[3], t[4] >> \in HasDemandCell(request) }
      IN  /\ Range(assignments)
               = { [staffId |-> request.staff[t[1]].id, wardId |-> t[3], date |-> t[2],
                    slot |-> t[4], shiftTypeId |-> ShiftByCode(request, t[4]).id]
                   : t \in { t \in cells : XNameOf(request, t) \in sol.x } }
          /\ \A t1, t2 \in cells :
                t1 # t2 => XNameOf(request, t1) # XNameOf(request, t2)

\* total required headcount of the demand cell (d, w, s)
CellRequired(req, cell) ==
    LET keys == { key \in DemandReqKeys(req) : << key[1], key[2], key[3] >> = cell }
    IN  SumSet(keys, [key \in keys |-> DemandReq(req, key)])

\* C26: in every solution returned by solve, every assignment contributes to a
\* requirement: x[e,d,w,s] = 1 implies y[e,d,w,s,k] = 1 for some skill k with
\* Req(d,w,s,k) > 0, and the assignments of a cell number at most its required headcount.
C26_NoIdleAssignments ==
    (Returned /\ HasSolution) =>
      /\ \A t \in LoopCells(request) :
            XNameOf(request, t) \in sol.x =>
              \E key \in DemandReqKeys(request) :
                /\ << key[1], key[2], key[3] >> = << t[2], t[3], t[4] >>
                /\ DemandReq(request, key) > 0
                /\ YName(request.staff[t[1]].id, t[2], t[4], t[3], key[4]) \in sol.y
      /\ \A cell \in HasDemandCell(request) :
            Cardinality({ n \in DOMAIN assignments :
                            << assignments[n].date, assignments[n].wardId,
                               assignments[n].slot >> = cell })
              <= CellRequired(request, cell)

\* the slack of the demand cell (d, w, s) in the engine's solution: sum over skills of u
CellSlack(req, U, v, cell) ==
    LET keys == { key \in ULoopKeys(req) :
                    /\ << key[1], key[2], key[3] >> = cell
                    /\ UName(key[1], key[3], key[2], key[4]) \in U }
    IN  SumSet(keys, [key \in keys |-> v.u[UName(key[1], key[3], key[2], key[4])]])

\* C27: the diagnostics summary agrees with the engine's slack: the unmet reported for
\* every demand cell is the sum over skills of u[d,w,s,k], and summary total_unmet is
\* the sum of all u, also when staff with a required skill are not eligible for the ward.
C27_SummaryAgreesWithSlack ==
    (Returned /\ HasSolution) =>
      /\ \A cell \in HasDemandCell(request) :
            CellFillUnmet(request, yvars, sol, cell) = CellSlack(request, uvars, sol, cell)
      /\ diagnostics.summary.total_unmet = TotalUnmet(uvars, sol)

\* the restrictions on x that are documented: demand-cell membership, ward eligibility,
\* one shift per day, the overlap and forbidden-adjacency matrices of the code, and the
\* prorated weekly caps
DocumentedRestrictions(req, X, xs) ==
    LET v == [x |-> xs, y |-> {}, u |-> << >>]
    IN  /\ xs \subseteq X
        /\ \A t \in LoopCells(req) :
              XNameOf(req, t) \in xs =>
                /\ << t[2], t[3], t[4] >> \in HasDemandCell(req)
                /\ t[3] \in req.staff[t[1]].eligibleWards
        /\ AddOneShiftPerDayConstraints(req, X, v)
        /\ AddRestConstraints(req, X, v)
        /\ AddWeeklyContractHoursConstraints(req, X, v)

\* the x values xs completed with no skill contribution and every slack at its
\* requirement (the completion that the links and the coverage constraints always allow)
SlackCompletion(req, U, xs) ==
    [x |-> xs, y |-> {}, u |-> [n \in U |-> UBound(req, n)]]

\* C28: every choice of x values that respects the documented restrictions extends to a
\* feasible solution of the built model, also when a staff member's minutes over the
\* horizon exceed 10000 or all staff's minutes exceed 100000.
C28_NoUndocumentedRestriction ==
    pc = "built" =>
      \A xs \in SUBSET xvars :
        DocumentedRestrictions(request, xvars, xs) =>
          Feasible(request, xvars, yvars, uvars, SlackCompletion(request, uvars, xs))

\* the query names the solutionId of the stored response of a solve call and one of
\* its assignments
QueriesReturnedAssignment(q) ==
    /\ LAST.response.code = 200
    /\ q.scheduleId = LAST.response.solutionId
    /\ \E n \in DOMAIN LAST.response.assignments :
          LET a == LAST.response.assignments[n]
          IN  a.staffId = q.staffId /\ a.date = q.date /\ a.slot = q.slot

\* C29: a GET /explain that follows a solve call and names its solutionId and one of its
\* assignments returns an explanation, and 404 "Solution not found" is answered only
\* for an identifier that no solve call returned.
C29_ExplainFindsReturnedSolution ==
    explained # NoExplain =>
      /\ QueriesReturnedAssignment(explained.query) => explained.code = 200
      /\ (explained.code = 404 /\ explained.detail = "Solution not found") =>
            ~(LAST.response.code = 200
              /\ explained.query.scheduleId = LAST.response.solutionId)

\* the validator's unmet of the demand cell: max(0, required - assigned)
ValidatorCellUnmet(req, resp, cell) ==
    LET unmet == DemandIndex(req, cell) - CellAssignments(req, resp, cell)
    IN  IF unmet > 0 THEN unmet ELSE 0

\* C30: the validator exits with code 0 only if every demand cell has at least as many
\* assignments as its total required headcount, and with code 2 whenever some cell has
\* unmet > 0.
C30_ValidatorExitCode ==
    exitCode # -1 =>
      /\ exitCode = 0 =>
            \A cell \in HasDemandCell(request) :
              CellAssignments(request, response, cell) >= DemandIndex(request, cell)
      /\ (\E cell \in HasDemandCell(request) :
              ValidatorCellUnmet(request, response, cell) > 0) => exitCode = 2

====
